---- MODULE Spec2Model ----
(***************************************************************************)
(* OasisVbmDataset.fetch (nidata/anatomical/oasis_vbm/datasets.py) as a    *)
(* state machine: one call of fetch is walked through its statements, from *)
(* the check of n_subjects to the returned Bunch or the raised exception.  *)
(* Python strings are TLA+ strings, Python lists are sequences.            *)
(***************************************************************************)
EXTENDS Integers, Sequences, FiniteSets, TLC

VARIABLES
    pc,                 \* position in fetch: idle, check, build, fetch, bunch, returned, raised
    requested,          \* the n_subjects argument as passed by the caller
    n_subjects,         \* the local n_subjects (rebound by the checks)
    dartel_version,     \* argument
    url,                \* argument (None or a mirror)
    warned,             \* TRUE once warnings.warn has been called
    error,              \* the exception that ended the call, "none" otherwise
    missing_subjects,   \* the local list, rebound to the merged sorted list
    file_names_gm,      \* the local lists of (path, url, opts)
    file_names_wm,
    file_names,         \* the manifest handed to self.fetcher.fetch
    fetcher_calls,      \* how many times self.fetcher.fetch was invoked in this call
    files,              \* what the fetcher returned
    csv_file,           \* contents of the covariates file on disk
    csv_data,           \* np.recfromcsv(ext_vars_file), before the mask
    bunch               \* the returned Bunch

vars == <<pc, requested, n_subjects, dartel_version, url, warned, error,
          missing_subjects, file_names_gm, file_names_wm, file_names,
          fetcher_calls, files, csv_file, csv_data, bunch>>

\* Python's None and a present value: an optional x is None or Some(x)
None == <<>>
Some(x) == <<x>>

----------------------------------------------------------------------------
\* Bounds of the checked calls.

\* n_subjects is drawn from None, from the counts around 1,
\* (1 - MaxUnder) .. MaxLow, and from the counts around the two caps,
\* (DartelCap - MaxBelowCap) .. (StandardCap + MaxOver)
MaxUnder == 2
MaxLow == 6
MaxBelowCap == 2
MaxOver == 2
\* number of reliability (MR2) rows at the end of the covariates file
MaxRescans == 3

----------------------------------------------------------------------------
\* Program constants.

DartelCap == 403
StandardCap == 415
\* range(1, 457)
RangeStop == 457
\* [:9] of the piece after "OAS1"
TokenLen == 9

Cap(dartel) == IF dartel THEN DartelCap ELSE StandardCap

\* names bound at module level by the import statements and definitions
ModuleNames ==
    {"os", "np", "Bunch", "HttpDataset", "format_time", "md5_sum_file",
     "OasisVbmDataset", "fetch_oasis_vbm"}

MissingSubjects ==
    <<8, 24, 36, 48, 89, 93, 100, 118, 128, 149, 154,
      171, 172, 175, 187, 194, 196, 215, 219, 225, 242,
      245, 248, 251, 252, 257, 276, 297, 306, 320, 324,
      334, 347, 360, 364, 391, 393, 412, 414, 427, 436>>

\* the 13 outliers the docstring counts, one of them already missing
RemovedOutliersThirteen(dartel) ==
    IF dartel
    THEN <<27, 57, 66, 83, 122, 157, 222, 269, 282, 287, 309, 414, 428>>
    ELSE <<390>>

RemovedOutliers(dartel) ==
    IF dartel
    THEN <<27, 57, 66, 83, 122, 157, 222, 269, 282, 287, 309, 428>>
    ELSE <<390>>

----------------------------------------------------------------------------
\* Python list and string primitives.

Min(a, b) == IF a < b THEN a ELSE b
Max(a, b) == IF a > b THEN a ELSE b

\* x in lst
InList(x, lst) == \E i \in 1..Len(lst) : lst[i] = x

\* a slice bound as Python normalises it
SliceIndex(k, len) == IF k < 0 THEN Max(len + k, 0) ELSE Min(k, len)

\* lst[a:b]  (also for strings)
PySlice(lst, a, b) == SubSeq(lst, SliceIndex(a, Len(lst)) + 1, SliceIndex(b, Len(lst)))

\* lst[:b]
PySliceTo(lst, b) == PySlice(lst, 0, b)

\* sorted(lst): a stable sort, duplicates are kept
Sorted(lst) ==
    LET n == Len(lst)
        rank == [i \in 1..n |->
                   1 + Cardinality({j \in 1..n : lst[j] < lst[i] \/ (lst[j] = lst[i] /\ j < i)})]
    IN  [k \in 1..n |-> lst[CHOOSE i \in 1..n : rank[i] = k]]

\* "%04d" % s
Format04d(s) ==
    LET t == ToString(s)
    IN  IF Len(t) >= 4 THEN t ELSE SubSeq("0000", 1, 4 - Len(t)) \o t

\* os.path.join(a, b) for a relative b
PathJoin(a, b) == a \o "/" \o b

\* position of the last "/" in p, 0 when there is none
LastSlash(p) ==
    LET at == {i \in 1..Len(p) : SubSeq(p, i, i) = "/"}
    IN  IF at = {} THEN 0 ELSE CHOOSE i \in at : \A j \in at : j <= i

\* os.path.basename(p)
Basename(p) == SubSeq(p, LastSlash(p) + 1, Len(p))

\* first position at which sep occurs in s, 0 when there is none
Find(s, sep) ==
    LET at == {i \in 1..(Len(s) - Len(sep) + 1) : SubSeq(s, i, i + Len(sep) - 1) = sep}
    IN  IF at = {} THEN 0 ELSE CHOOSE i \in at : \A j \in at : i <= j

\* str.split(s, sep)
RECURSIVE Split(_, _)
Split(s, sep) ==
    LET k == Find(s, sep)
    IN  IF k = 0 THEN <<s>>
        ELSE <<SubSeq(s, 1, k - 1)>> \o Split(SubSeq(s, k + Len(sep), Len(s)), sep)

\* s.encode(): a bytes object, never equal to a str
Encode(s) == [bytes |-> s]

----------------------------------------------------------------------------
\* The statements of fetch.

\* the two defaults the wrong way round
DefaultCountSwapped(req, dartel) == IF req = None THEN Cap(~dartel) ELSE req[1]

\* if n_subjects is None: n_subjects = 403 if dartel_version else 415
DefaultCount(req, dartel) == IF req = None THEN Cap(dartel) ELSE req[1]

\* if n_subjects > 403 / if n_subjects > 415
OverCap(n, dartel) == n > Cap(dartel)

\* evaluating the global name `name` succeeds (NameError otherwise)
NameBound(name) == name \in ModuleNames

\* the check written as n_subjects < 0
TooFewBelowZero(n) == n < 0

\* if n_subjects < 1: raise ValueError
TooFew(n) == n < 1

UrlImages(u, dartel) ==
    IF u = None
    THEN IF dartel
         THEN "https://www.nitrc.org/frs/download.php/6364/archive_dartel.tgz?i_agree=1&download_now=1"
         ELSE "https://www.nitrc.org/frs/download.php/6359/archive.tgz?i_agree=1&download_now=1"
    ELSE IF dartel THEN u[1] \o "/archive_dartel.tgz" ELSE u[1] \o "/archive.tgz"

UrlCsv(u) ==
    IF u = None
    THEN "https://www.nitrc.org/frs/download.php/6348/oasis_cross-sectional.csv?i_agree=1&download_now=1"
    ELSE u[1] \o "/oasis_cross-sectional.csv"

UrlDua(u) ==
    IF u = None
    THEN "https://www.nitrc.org/frs/download.php/6349/data_usage_agreement.txt?i_agree=1&download_now=1"
    ELSE u[1] \o "/data_usage_agreement.txt"

\* opts = {'uncompress': True}, as the set of options that are on
Opts == {"uncompress"}

\* missing_subjects = sorted(missing_subjects + removed_outliers)
MergedMissing(dartel) == Sorted(MissingSubjects \o RemovedOutliers(dartel))

\* [s for s in range(1, 457) if s not in missing_subjects]
AvailableSubjects(missing) ==
    SelectSeq([i \in 1..(RangeStop - 1) |-> i], LAMBDA s : ~InList(s, missing))

GmPrefix(dartel) == IF dartel THEN "mwrc1" ELSE "mwc1"
WmPrefix(dartel) == IF dartel THEN "mwrc2" ELSE "mwc2"

\* os.path.join("OAS1_%04d_MR1", "<prefix>OAS1_%04d_MR1_mpr_anon_fslswapdim_bet.nii.gz") % (s, s)
ImagePath(prefix, s) ==
    PathJoin("OAS1_" \o Format04d(s) \o "_MR1",
             prefix \o "OAS1_" \o Format04d(s) \o "_MR1_mpr_anon_fslswapdim_bet.nii.gz")

Entry(path, src, opts) == [path |-> path, url |-> src, opts |-> opts]

\* the gray matter comprehension, with its own [:n_subjects]
GmComprehension(n, dartel, u, missing) ==
    LET avail == AvailableSubjects(missing)
    IN  PySliceTo([i \in 1..Len(avail) |->
                     Entry(ImagePath(GmPrefix(dartel), avail[i]), UrlImages(u, dartel), Opts)],
                  n)

\* the white matter comprehension filtered by the list before the merge
WmComprehensionUnmerged(dartel, u, missing) ==
    LET avail == AvailableSubjects(MissingSubjects)
    IN  [i \in 1..Len(avail) |->
           Entry(ImagePath(WmPrefix(dartel), avail[i]), UrlImages(u, dartel), Opts)]

\* the white matter comprehension, not sliced
WmComprehension(dartel, u, missing) ==
    LET avail == AvailableSubjects(missing)
    IN  [i \in 1..Len(avail) |->
           Entry(ImagePath(WmPrefix(dartel), avail[i]), UrlImages(u, dartel), Opts)]

\* file_names_gm = file_names_gm[:n_subjects]; file_names_wm = file_names_wm[:n_subjects]
Restrict(lst, n) == PySliceTo(lst, n)

FileNamesExtvars(u) == <<Entry("oasis_cross-sectional.csv", UrlCsv(u), {})>>
FileNamesDua(u) == <<Entry("data_usage_agreement.txt", UrlDua(u), {})>>

\* file_names = file_names_gm + file_names_wm + file_names_extvars + file_names_dua
Manifest(gm, wm, u) == gm \o wm \o FileNamesExtvars(u) \o FileNamesDua(u)

\* gm_maps = files[:n_subjects]
GmMaps(fs, n) == PySliceTo(fs, n)

\* the slice written as files[n_subjects:]
WmMapsToEnd(fs, n) == PySlice(fs, n, Len(fs))

\* wm_maps = files[n_subjects:(2 * n_subjects)]
WmMaps(fs, n) == PySlice(fs, n, 2 * n)

\* files[-2], files[-1]
FromEnd(fs, k) == fs[Len(fs) + 1 - k]

\* the token cut one character short, [:8]
SubjectIdShort(x) == Encode("OAS1" \o PySliceTo(Split(Basename(x), "OAS1")[2], TokenLen - 1))

\* ("OAS1" + str.split(os.path.basename(x), "OAS1")[1][:9]).encode()
SubjectId(x) == Encode("OAS1" \o PySliceTo(Split(Basename(x), "OAS1")[2], TokenLen))

\* [... for x in gm_maps]
ActualSubjectsIds(gm_maps) == [i \in 1..Len(gm_maps) |-> SubjectId(gm_maps[i])]

\* subject_mask = [subject_id in actual_subjects_ids for subject_id in csv_data['id']]
SubjectMask(data, ids) ==
    LET idset == {ids[i] : i \in 1..Len(ids)}
    IN  [i \in 1..Len(data.rows) |-> data.rows[i].id \in idset]

\* csv_data[subject_mask]
MaskRows(data, mask) ==
    LET idx == SelectSeq([i \in 1..Len(data.rows) |-> i], LAMBDA i : mask[i])
    IN  [data EXCEPT !.rows = [k \in 1..Len(idx) |-> data.rows[idx[k]]]]

\* a Bunch built without its data_usage_agreement
MakeBunchWithoutAgreement(gm_maps, wm_maps, ext_vars, data_usage_agreement) ==
    Some([gray_matter_maps |-> gm_maps,
          white_matter_maps |-> wm_maps,
          ext_vars |-> ext_vars])

\* return Bunch(gray_matter_maps=..., white_matter_maps=..., ext_vars=..., data_usage_agreement=...)
MakeBunch(gm_maps, wm_maps, ext_vars, data_usage_agreement) ==
    Some([gray_matter_maps |-> gm_maps,
          white_matter_maps |-> wm_maps,
          ext_vars |-> ext_vars,
          data_usage_agreement |-> data_usage_agreement])

----------------------------------------------------------------------------
\* The collaborators: the fetcher, the covariates file, numpy's recfromcsv.

DataDir == "/nidata_data/oasis1"

\* where the fetcher puts the file of a manifest entry
LocalPath(entry) == PathJoin(DataDir, entry.path)

\* the session id of the covariates file, e.g. OAS1_0071_MR1
Digit(k) == ToString(k % 10)
SessionId(s, session) ==
    "OAS1_" \o Digit(s \div 1000) \o Digit(s \div 100) \o Digit(s \div 10) \o Digit(s)
            \o "_MR" \o ToString(session)

\* the subjects of the archive: all of 1..456 but the missing ones
ArchiveSubjects == AvailableSubjects(MissingSubjects)

CsvRow(s, session) == [id |-> SessionId(s, session), subject |-> s, session |-> session]

\* first visits in ascending order, then the rescans of the first subjects
OasisRows ==
    [i \in 1..Len(ArchiveSubjects) |-> CsvRow(ArchiveSubjects[i], 1)]
    \o [i \in 1..MaxRescans |-> CsvRow(ArchiveSubjects[i], 2)]

ReversedRows == [i \in 1..Len(OasisRows) |-> OasisRows[Len(OasisRows) + 1 - i]]

ShortRows == [i \in 1..10 |-> CsvRow(i, 1)]

CsvFiles ==
    { [header |-> "ID", rows |-> OasisRows],
      [header |-> "ID", rows |-> ReversedRows],
      [header |-> "ID", rows |-> ShortRows],
      [header |-> "Subject", rows |-> OasisRows] }

\* recfromcsv lower-cases the field names
LowerName(h) == IF h = "ID" THEN "id" ELSE IF h = "Subject" THEN "subject" ELSE h

\* np.recfromcsv(ext_vars_file): string fields are read as bytes
RecFromCsv(f) ==
    [names |-> {LowerName(f.header)},
     rows |-> [i \in 1..Len(f.rows) |-> [f.rows[i] EXCEPT !.id = Encode(@)]]]

----------------------------------------------------------------------------
Requests ==
    {None}
    \cup {Some(k) : k \in (1 - MaxUnder)..MaxLow}
    \cup {Some(k) : k \in (DartelCap - MaxBelowCap)..(StandardCap + MaxOver)}

Urls == {None, Some("http://localhost/oasis")}

Init ==
    /\ pc = "idle"
    /\ requested = None
    /\ n_subjects = 0
    /\ dartel_version = TRUE
    /\ url = None
    /\ warned = FALSE
    /\ error = "none"
    /\ missing_subjects = MissingSubjects
    /\ file_names_gm = <<>>
    /\ file_names_wm = <<>>
    /\ file_names = <<>>
    /\ fetcher_calls = 0
    /\ files = <<>>
    /\ csv_file = None
    /\ csv_data = None
    /\ bunch = None

\* fetch(n_subjects=n, dartel_version=d, url=u) is entered
Call(n, d, u) ==
    /\ pc = "idle"
    /\ pc' = "check"
    /\ requested' = n
    /\ dartel_version' = d
    /\ url' = u
    /\ UNCHANGED <<n_subjects, warned, error, missing_subjects, file_names_gm,
                   file_names_wm, file_names, fetcher_calls, files, csv_file,
                   csv_data, bunch>>

\* check number of subjects
CheckSubjects ==
    /\ pc = "check"
    /\ LET n1 == DefaultCount(requested, dartel_version)
           over == OverCap(n1, dartel_version)
           n2 == IF over THEN Cap(dartel_version) ELSE n1
       IN  IF over /\ ~NameBound("warnings")
           THEN /\ n_subjects' = n1
                /\ warned' = FALSE
                /\ error' = "NameError"
                /\ pc' = "raised"
           ELSE /\ n_subjects' = n2
                /\ warned' = over
                /\ IF TooFew(n2)
                   THEN error' = "ValueError" /\ pc' = "raised"
                   ELSE error' = "none" /\ pc' = "build"
    /\ UNCHANGED <<requested, dartel_version, url, missing_subjects, file_names_gm,
                   file_names_wm, file_names, fetcher_calls, files, csv_file,
                   csv_data, bunch>>

\* pick the archive, list the files of the subjects, restrict and concatenate
BuildManifest ==
    /\ pc = "build"
    /\ LET missing == MergedMissing(dartel_version)
           gm == Restrict(GmComprehension(n_subjects, dartel_version, url, missing), n_subjects)
           wm == Restrict(WmComprehension(dartel_version, url, missing), n_subjects)
       IN  /\ missing_subjects' = missing
           /\ file_names_gm' = gm
           /\ file_names_wm' = wm
           /\ file_names' = Manifest(gm, wm, url)
    /\ pc' = "fetch"
    /\ UNCHANGED <<requested, n_subjects, dartel_version, url, warned, error,
                   fetcher_calls, files, csv_file, csv_data, bunch>>

\* self.fetcher.fetch(file_names, ...) returns one local path per entry, in order
FetcherReturns(f) ==
    /\ pc = "fetch"
    /\ fetcher_calls' = fetcher_calls + 1
    /\ files' = [i \in 1..Len(file_names) |-> LocalPath(file_names[i])]
    /\ csv_file' = Some([path |-> LocalPath(FileNamesExtvars(url)[1]), content |-> f])
    /\ pc' = "bunch"
    /\ UNCHANGED <<requested, n_subjects, dartel_version, url, warned, error,
                   missing_subjects, file_names_gm, file_names_wm, file_names,
                   csv_data, bunch>>

\* self.fetcher.fetch raises: nothing in fetch catches it
FetcherRaises ==
    /\ pc = "fetch"
    /\ fetcher_calls' = fetcher_calls + 1
    /\ error' = "RetrievalError"
    /\ pc' = "raised"
    /\ UNCHANGED <<requested, n_subjects, dartel_version, url, warned,
                   missing_subjects, file_names_gm, file_names_wm, file_names,
                   files, csv_file, csv_data, bunch>>

\* Build Bunch: slice the paths, keep the CSV lines of the selected subjects
BuildBunch ==
    /\ pc = "bunch"
    /\ LET gm_maps == GmMaps(files, n_subjects)
           wm_maps == WmMaps(files, n_subjects)
           ext_vars_file == FromEnd(files, 2)
           data_usage_agreement == FromEnd(files, 1)
           readable == csv_file # None /\ csv_file[1].path = ext_vars_file
           data == RecFromCsv(csv_file[1].content)
           tokens_ok == \A i \in 1..Len(gm_maps) : Len(Split(Basename(gm_maps[i]), "OAS1")) >= 2
       IN  IF ~readable
           THEN /\ error' = "IOError" /\ pc' = "raised"
                /\ UNCHANGED <<csv_data, bunch>>
           ELSE IF ~tokens_ok
           THEN /\ error' = "IndexError" /\ pc' = "raised"
                /\ csv_data' = Some(data)
                /\ UNCHANGED bunch
           ELSE IF "id" \notin data.names
           THEN /\ error' = "ParseError" /\ pc' = "raised"
                /\ csv_data' = Some(data)
                /\ UNCHANGED bunch
           ELSE /\ csv_data' = Some(data)
                /\ bunch' = MakeBunch(gm_maps, wm_maps,
                                      MaskRows(data, SubjectMask(data, ActualSubjectsIds(gm_maps))),
                                      data_usage_agreement)
                /\ error' = "none" /\ pc' = "returned"
    /\ UNCHANGED <<requested, n_subjects, dartel_version, url, warned,
                   missing_subjects, file_names_gm, file_names_wm, file_names,
                   fetcher_calls, files, csv_file>>

\* the call is over (Bunch returned or exception propagated); the next call starts afresh
Finish ==
    /\ pc \in {"returned", "raised"}
    /\ pc' = "idle"
    /\ requested' = None
    /\ n_subjects' = 0
    /\ dartel_version' = TRUE
    /\ url' = None
    /\ warned' = FALSE
    /\ error' = "none"
    /\ missing_subjects' = MissingSubjects
    /\ file_names_gm' = <<>>
    /\ file_names_wm' = <<>>
    /\ file_names' = <<>>
    /\ fetcher_calls' = 0
    /\ files' = <<>>
    /\ csv_file' = None
    /\ csv_data' = None
    /\ bunch' = None

Next ==
    \/ \E n \in Requests, d \in BOOLEAN, u \in Urls : Call(n, d, u)
    \/ CheckSubjects
    \/ BuildManifest
    \/ \E f \in CsvFiles : FetcherReturns(f)
    \/ FetcherRaises
    \/ BuildBunch
    \/ Finish

Spec == Init /\ [][Next]_vars

----------------------------------------------------------------------------
\* Vocabulary of the properties.

\* the call got past the check of n_subjects
PastCheck == pc \notin {"idle", "check"}

\* the manifest of this call has been built
ManifestBuilt == pc \in {"fetch", "bunch", "returned"} \/ (pc = "raised" /\ fetcher_calls > 0)

Range(lst) == {lst[i] : i \in 1..Len(lst)}

\* the subject number written in a relative image path, OAS1_dddd_MR1/...
DigitValue(c) == CHOOSE d \in 0..9 : ToString(d) = c
SubjectOfPath(p) ==
    1000 * DigitValue(SubSeq(p, 6, 6)) + 100 * DigitValue(SubSeq(p, 7, 7))
    + 10 * DigitValue(SubSeq(p, 8, 8)) + DigitValue(SubSeq(p, 9, 9))

\* the relative path of the image of subject s, written from the session id
ExpectedImagePath(prefix, s) ==
    SessionId(s, 1) \o "/" \o prefix \o SessionId(s, 1) \o "_mpr_anon_fslswapdim_bet.nii.gz"

\* the subjects excluded for the variant of this call
Excluded == Range(MissingSubjects) \cup Range(RemovedOutliers(dartel_version))

LocalPaths(entries) == [i \in 1..Len(entries) |-> PathJoin(DataDir, entries[i].path)]

----------------------------------------------------------------------------
\* C1: a request above the variant's cap is warned about and clamped to the
\* cap, and the call goes on to build the manifest and to call the fetcher:
\* it never ends in an error before the fetcher has been invoked.
C1_OversizedRequestWarnsAndClamps ==
    (PastCheck /\ requested # None /\ requested[1] > Cap(dartel_version))
        => /\ warned
           /\ n_subjects = Cap(dartel_version)
           /\ (pc = "raised" => fetcher_calls > 0)

\* C2: a request below 1 ends the call with ValueError; no manifest is
\* built and the fetcher is not invoked.
C2_TooFewSubjectsRaises ==
    (PastCheck /\ requested # None /\ requested[1] < 1)
        => /\ pc = "raised"
           /\ error = "ValueError"
           /\ file_names = <<>> /\ file_names_gm = <<>> /\ file_names_wm = <<>>
           /\ fetcher_calls = 0
           /\ bunch = None

C2_Witness ==
    pc = "raised" /\ requested # None /\ requested[1] < 1 /\ error = "ValueError"

\* C3: in every returned Bunch the gray matter list and the white matter
\* list both have as many paths as the effective subject count of the call.
C3_MapListsHaveEffectiveLength ==
    pc = "returned"
        => /\ Len(bunch[1].gray_matter_maps) = n_subjects
           /\ Len(bunch[1].white_matter_maps) = n_subjects

C3_Witness ==
    /\ pc = "returned" /\ n_subjects = StandardCap
    /\ Len(bunch[1].gray_matter_maps) = StandardCap

\* C4: the returned covariates are exactly the rows of the parsed file that
\* are the first-visit rows of the subjects whose gray matter maps were
\* retrieved, in the order of the file.
C4_CovariatesAreRowsOfRetrieved ==
    pc = "returned"
        => LET retrieved == {SubjectOfPath(file_names_gm[i].path) : i \in 1..Len(file_names_gm)}
           IN  /\ bunch[1].ext_vars.names = csv_data[1].names
               /\ bunch[1].ext_vars.rows =
                    SelectSeq(csv_data[1].rows,
                              LAMBDA r : r.session = 1 /\ r.subject \in retrieved)

C4_Witness ==
    /\ pc = "returned"
    /\ csv_file[1].content.rows = ReversedRows
    /\ Len(bunch[1].ext_vars.rows) = n_subjects
    /\ 1 < n_subjects /\ n_subjects < Len(csv_data[1].rows)

\* C5: a call ends with a full Bunch or with an error, never with a part of
\* a Bunch; an error of the fetcher ends the call with that error, after one
\* invocation and without a Bunch.
C5_FullBunchOrError ==
    /\ pc = "returned"
         => /\ error = "none"
            /\ bunch # None
            /\ DOMAIN bunch[1] = {"gray_matter_maps", "white_matter_maps",
                                  "ext_vars", "data_usage_agreement"}
            /\ DOMAIN bunch[1].ext_vars = {"names", "rows"}
            /\ bunch[1].data_usage_agreement = FromEnd(files, 1)
            /\ Len(bunch[1].gray_matter_maps) > 0
            /\ Len(bunch[1].white_matter_maps) > 0
    /\ pc # "returned" => bunch = None
    /\ pc = "raised" => error # "none"
    /\ error = "RetrievalError" => (pc = "raised" /\ fetcher_calls = 1)

C5_Witness == pc = "raised" /\ error = "RetrievalError" /\ bunch = None

\* C6: with n_subjects left unspecified the effective count is the cap of
\* the variant, 403 with DARTEL and 415 without, and the manifest then lists
\* every available subject of the variant.
C6_DefaultCountIsCap ==
    (PastCheck /\ requested = None)
        => /\ n_subjects = (IF dartel_version THEN DartelCap ELSE StandardCap)
           /\ ManifestBuilt =>
                Range([i \in 1..Len(file_names_gm) |-> SubjectOfPath(file_names_gm[i].path)])
                    = (1..(RangeStop - 1)) \ Excluded

C6_Witness ==
    /\ pc = "fetch" /\ requested = None /\ ~dartel_version /\ n_subjects = StandardCap

\* C7: the manifest holds exactly n_subjects gray matter entries, exactly
\* n_subjects white matter entries, and 2 * n_subjects + 2 entries in all.
C7_ManifestHasCountEntries ==
    ManifestBuilt
        => /\ Len(file_names_gm) = n_subjects
           /\ Len(file_names_wm) = n_subjects
           /\ Len(file_names) = 2 * n_subjects + 2

\* C8: the lists of the returned Bunch follow the kinds of the manifest:
\* gray_matter_maps are the local paths of the gray matter entries,
\* white_matter_maps those of the white matter entries, and
\* data_usage_agreement is the local path of the agreement entry.
C8_SlicesAgreeWithManifest ==
    pc = "returned"
        => /\ bunch[1].gray_matter_maps = LocalPaths(file_names_gm)
           /\ bunch[1].white_matter_maps = LocalPaths(file_names_wm)
           /\ csv_file[1].path = LocalPaths(FileNamesExtvars(url))[1]
           /\ bunch[1].data_usage_agreement = LocalPaths(FileNamesDua(url))[1]

\* C9: the i-th gray matter entry and the i-th white matter entry of the
\* manifest name the same subject; the subjects are strictly ascending, none
\* is excluded, and they are the first of 1..456 that are not excluded.
C9_EntriesPairedOverAvailable ==
    pc = "fetch"
        => LET ids == [i \in 1..Len(file_names_gm) |-> SubjectOfPath(file_names_gm[i].path)]
           IN  /\ Len(file_names_wm) = Len(file_names_gm)
               /\ \A i \in 1..Len(ids) :
                    /\ file_names_gm[i].path = ExpectedImagePath(GmPrefix(dartel_version), ids[i])
                    /\ file_names_wm[i].path = ExpectedImagePath(WmPrefix(dartel_version), ids[i])
                    /\ ids[i] \in (1..(RangeStop - 1)) \ Excluded
                    /\ i > 1 => ids[i - 1] < ids[i]
               /\ \A s \in (1..(RangeStop - 1)) \ Excluded :
                    (ids # <<>> /\ s < ids[Len(ids)]) => s \in Range(ids)
               /\ Len(ids) < n_subjects => Range(ids) = (1..(RangeStop - 1)) \ Excluded

C9_Witness ==
    /\ pc = "fetch" /\ dartel_version /\ n_subjects = DartelCap
    /\ Len(file_names_gm) = DartelCap /\ Len(file_names_wm) = DartelCap

====
